---- MODULE Spec2Model ----
(***************************************************************************)
(* Model of ledb/src/error.rs: the unified Error type, its Display         *)
(* rendering, Into<String>, the From conversions and ResultWrap::wrap_err. *)
(*                                                                         *)
(* Texts are sequences of one-character strings.  A foreign failure value  *)
(* (lmdb, ron, serde_cbor, std::io, Utf8Error, PoisonError) is a record    *)
(* [type, text]: its static type and the text its own Display writes.      *)
(* A String or &str is the same record with type "String" or "&str".       *)
(* An Error is [type |-> "Error", variant, payload].                       *)
(***************************************************************************)
EXTENDS Integers, Sequences, FiniteSets, TLC

VARIABLES op, src, err, out, arg, res

vars == <<op, src, err, out, arg, res>>

\* ---------------------------------------------------------------- bounds
MaxLen == 2
NumChars == 2
MaxVal == 1

Alphabet == <<"x", ":", " ", "S", "e">>
Chars == {Alphabet[i] : i \in 1..NumChars}
Texts == UNION {[1..n -> Chars] : n \in 0..MaxLen}
Values == 0..MaxVal

\* ------------------------------------------------------- the data model
\* the seven variants of enum Error
Variants ==
    {"DocError", "DbError", "StrError", "DataError", "StorageError", "IoError", "SyncError"}

\* the failure types imported from other crates and from std
ForeignTypes == {"CborError", "RonError", "DbError", "IoError", "PoisonError", "Utf8Error"}

\* every type E with an impl From<E> for Error in this file
SourceTypes == ForeignTypes \cup {"String", "&str"}

\* the payload type each variant declares
PayloadType(v) ==
    CASE v = "DocError" -> "String"
      [] v = "DbError" -> "DbError"
      [] v = "StrError" -> "Utf8Error"
      [] v = "DataError" -> "CborError"
      [] v = "StorageError" -> "String"
      [] v = "IoError" -> "IoError"
      [] v = "SyncError" -> "String"

Val(t, s) == [type |-> t, text |-> s]
NoValue == Val("None", <<>>)
Failures == {Val(t, s) : t \in SourceTypes, s \in Texts}

Error(v, p) == [type |-> "Error", variant |-> v, payload |-> p]
NoError == Error("None", NoValue)
Errors == {Error(v, Val(PayloadType(v), s)) : v \in Variants, s \in Texts}

\* ------------------------------------------------------------ rendering
\* what "{}" writes for a payload: a String verbatim, a foreign value by its
\* own Display
Display(p) == p.text

\* fmt with the I/O arm's label written in lower case
fmt_lower_io(e) ==
    CASE e.variant = "DocError" ->
           <<"D", "o", "c", "u", "m", "e", "n", "t", " ", "e", "r", "r", "o", "r", ":", " ">>
             \o Display(e.payload)
      [] e.variant = "DbError" ->
           <<"D", "a", "t", "a", "b", "a", "s", "e", " ", "e", "r", "r", "o", "r", ":", " ">>
             \o Display(e.payload)
      [] e.variant = "StrError" ->
           <<"S", "t", "r", "i", "n", "g", " ", "e", "r", "r", "o", "r", ":", " ">>
             \o Display(e.payload)
      [] e.variant = "DataError" ->
           <<"D", "a", "t", "a", " ", "c", "o", "d", "i", "n", "g", " ", "e", "r", "r", "o", "r", ":", " ">>
             \o Display(e.payload)
      [] e.variant = "StorageError" ->
           <<"S", "t", "o", "r", "a", "g", "e", " ", "e", "r", "r", "o", "r", ":", " ">>
             \o Display(e.payload)
      [] e.variant = "IoError" ->
           <<"I", "/", "O", " ", "e", "r", "r", "o", "r", ":", " ">>
             \o Display(e.payload)
      [] e.variant = "SyncError" ->
           <<"S", "y", "n", "c", " ", "e", "r", "r", "o", "r", ":", " ">>
             \o Display(e.payload)

\* fmt with the DocError arm writing the message alone
fmt_bare_doc(e) ==
    CASE e.variant = "DocError" ->
           <<>>
             \o Display(e.payload)
      [] e.variant = "DbError" ->
           <<"D", "a", "t", "a", "b", "a", "s", "e", " ", "e", "r", "r", "o", "r", ":", " ">>
             \o Display(e.payload)
      [] e.variant = "StrError" ->
           <<"S", "t", "r", "i", "n", "g", " ", "e", "r", "r", "o", "r", ":", " ">>
             \o Display(e.payload)
      [] e.variant = "DataError" ->
           <<"D", "a", "t", "a", " ", "c", "o", "d", "i", "n", "g", " ", "e", "r", "r", "o", "r", ":", " ">>
             \o Display(e.payload)
      [] e.variant = "StorageError" ->
           <<"S", "t", "o", "r", "a", "g", "e", " ", "e", "r", "r", "o", "r", ":", " ">>
             \o Display(e.payload)
      [] e.variant = "IoError" ->
           <<"I", "/", "O", " ", "E", "r", "r", "o", "r", ":", " ">>
             \o Display(e.payload)
      [] e.variant = "SyncError" ->
           <<"S", "y", "n", "c", " ", "e", "r", "r", "o", "r", ":", " ">>
             \o Display(e.payload)

\* fmt with the SyncError arm carrying the StorageError arm's label
fmt_copied_label(e) ==
    CASE e.variant = "DocError" ->
           <<"D", "o", "c", "u", "m", "e", "n", "t", " ", "e", "r", "r", "o", "r", ":", " ">>
             \o Display(e.payload)
      [] e.variant = "DbError" ->
           <<"D", "a", "t", "a", "b", "a", "s", "e", " ", "e", "r", "r", "o", "r", ":", " ">>
             \o Display(e.payload)
      [] e.variant = "StrError" ->
           <<"S", "t", "r", "i", "n", "g", " ", "e", "r", "r", "o", "r", ":", " ">>
             \o Display(e.payload)
      [] e.variant = "DataError" ->
           <<"D", "a", "t", "a", " ", "c", "o", "d", "i", "n", "g", " ", "e", "r", "r", "o", "r", ":", " ">>
             \o Display(e.payload)
      [] e.variant = "StorageError" ->
           <<"S", "t", "o", "r", "a", "g", "e", " ", "e", "r", "r", "o", "r", ":", " ">>
             \o Display(e.payload)
      [] e.variant = "IoError" ->
           <<"I", "/", "O", " ", "E", "r", "r", "o", "r", ":", " ">>
             \o Display(e.payload)
      [] e.variant = "SyncError" ->
           <<"S", "t", "o", "r", "a", "g", "e", " ", "e", "r", "r", "o", "r", ":", " ">>
             \o Display(e.payload)

\* fmt with the DbError arm dropping its payload
fmt_drop_payload(e) ==
    CASE e.variant = "DocError" ->
           <<"D", "o", "c", "u", "m", "e", "n", "t", " ", "e", "r", "r", "o", "r", ":", " ">>
             \o Display(e.payload)
      [] e.variant = "DbError" ->
           <<"D", "a", "t", "a", "b", "a", "s", "e", " ", "e", "r", "r", "o", "r", ":", " ">>
             \o <<>>
      [] e.variant = "StrError" ->
           <<"S", "t", "r", "i", "n", "g", " ", "e", "r", "r", "o", "r", ":", " ">>
             \o Display(e.payload)
      [] e.variant = "DataError" ->
           <<"D", "a", "t", "a", " ", "c", "o", "d", "i", "n", "g", " ", "e", "r", "r", "o", "r", ":", " ">>
             \o Display(e.payload)
      [] e.variant = "StorageError" ->
           <<"S", "t", "o", "r", "a", "g", "e", " ", "e", "r", "r", "o", "r", ":", " ">>
             \o Display(e.payload)
      [] e.variant = "IoError" ->
           <<"I", "/", "O", " ", "E", "r", "r", "o", "r", ":", " ">>
             \o Display(e.payload)
      [] e.variant = "SyncError" ->
           <<"S", "y", "n", "c", " ", "e", "r", "r", "o", "r", ":", " ">>
             \o Display(e.payload)

\* impl Display for Error
fmt(e) ==
    CASE e.variant = "DocError" ->
           <<"D", "o", "c", "u", "m", "e", "n", "t", " ", "e", "r", "r", "o", "r", ":", " ">>
             \o Display(e.payload)
      [] e.variant = "DbError" ->
           <<"D", "a", "t", "a", "b", "a", "s", "e", " ", "e", "r", "r", "o", "r", ":", " ">>
             \o Display(e.payload)
      [] e.variant = "StrError" ->
           <<"S", "t", "r", "i", "n", "g", " ", "e", "r", "r", "o", "r", ":", " ">>
             \o Display(e.payload)
      [] e.variant = "DataError" ->
           <<"D", "a", "t", "a", " ", "c", "o", "d", "i", "n", "g", " ", "e", "r", "r", "o", "r", ":", " ">>
             \o Display(e.payload)
      [] e.variant = "StorageError" ->
           <<"S", "t", "o", "r", "a", "g", "e", " ", "e", "r", "r", "o", "r", ":", " ">>
             \o Display(e.payload)
      [] e.variant = "IoError" ->
           <<"I", "/", "O", " ", "E", "r", "r", "o", "r", ":", " ">>
             \o Display(e.payload)
      [] e.variant = "SyncError" ->
           <<"S", "y", "n", "c", " ", "e", "r", "r", "o", "r", ":", " ">>
             \o Display(e.payload)

\* ToString::to_string: a fresh buffer that fmt writes into
to_string(e) == LET buf == <<>> IN buf \o fmt(e)

\* into returning the payload's text without the category
into_payload_only(e) == Display(e.payload)

\* impl Into<String> for Error
into(e) == to_string(e)

\* format!("{}", e)
format(e) == Val("String", Display(e))

\* ---------------------------------------------------------- conversions
From_CborError(e) == Error("DataError", e)
\* the ron conversion tagged as a synchronisation failure
From_RonError_sync(e) == Error("SyncError", format(e))

From_RonError(e) == Error("StorageError", format(e))
From_DbError(e) == Error("DbError", e)
From_IoError(e) == Error("IoError", e)
\* the poisoning conversion tagged as a storage failure
From_PoisonError_storage(e) == Error("StorageError", format(e))

From_PoisonError(e) == Error("SyncError", format(e))
From_Utf8Error(e) == Error("StrError", e)
From_String(e) == Error("DocError", e)
\* the slice conversion tagged as a storage failure
From_str_storage(e) == Error("StorageError", Val("String", e.text))

\* e.into() turns the slice into an owned String
From_str(e) == Error("DocError", Val("String", e.text))

\* Error::from, resolved by the static type of its argument; for an argument
\* that is already an Error the bound Error: From<E> is met by the reflexive
\* conversion, which returns its argument
Error_from(e) ==
    CASE e.type = "CborError" -> From_CborError(e)
      [] e.type = "RonError" -> From_RonError(e)
      [] e.type = "DbError" -> From_DbError(e)
      [] e.type = "IoError" -> From_IoError(e)
      [] e.type = "PoisonError" -> From_PoisonError(e)
      [] e.type = "Utf8Error" -> From_Utf8Error(e)
      [] e.type = "String" -> From_String(e)
      [] e.type = "&str" -> From_str(e)
      [] e.type = "Error" -> e

\* ------------------------------------------------------------ containers
\* StdResult<T, E>: etype is E
Ok(v, E) == [ok |-> TRUE, val |-> v, fail |-> NoValue, etype |-> E]
Err(e, E) == [ok |-> FALSE, val |-> 0, fail |-> e, etype |-> E]
NoResult == [ok |-> FALSE, val |-> 0, fail |-> NoValue, etype |-> "None"]

\* every container wrap_err accepts: Error: From<E>
Containers ==
    {Ok(v, E) : v \in Values, E \in SourceTypes \cup {"Error"}}
      \cup {Err(e, e.type) : e \in Failures \cup Errors}

\* wrap_err treating every foreign failure as a plain message
wrap_err_as_message(r) ==
    IF r.ok
      THEN Ok(r.val, "Error")
      ELSE Err(IF r.fail.type = "Error" THEN r.fail ELSE From_str(r.fail), "Error")

\* wrap_err re-wrapping an Error as the message of a DocError
wrap_err_rewrap(r) ==
    IF r.ok
      THEN Ok(r.val, "Error")
      ELSE Err(IF r.fail.type = "Error"
                 THEN Error("DocError", Val("String", fmt(r.fail)))
                 ELSE Error_from(r.fail), "Error")

\* ResultWrap::wrap_err: self.map_err(Error::from) keeps a success value and
\* applies Error::from to a failure value
wrap_err(r) ==
    IF r.ok
      THEN Ok(r.val, "Error")
      ELSE Err(Error_from(r.fail), "Error")

\* --------------------------------------------------------------- actions
Init ==
    /\ op = "init"
    /\ src = NoValue
    /\ err = NoError
    /\ out = <<>>
    /\ arg = NoResult
    /\ res = NoResult

\* Error::Variant(payload)
Construct ==
    \E e \in Errors :
        /\ op' = "new"
        /\ src' = NoValue
        /\ err' = e
        /\ out' = <<>>
        /\ arg' = NoResult
        /\ res' = NoResult

\* Error::from(x) / x.into()
Convert ==
    \E x \in Failures :
        /\ op' = "from"
        /\ src' = x
        /\ err' = Error_from(x)
        /\ out' = <<>>
        /\ arg' = NoResult
        /\ res' = NoResult

\* err.to_string() / format!("{}", err): borrows err
Render ==
    /\ op \in {"new", "from", "fmt"}
    /\ op' = "fmt"
    /\ out' = to_string(err)
    /\ UNCHANGED <<src, err, arg, res>>

\* let s: String = err.into(): consumes err
IntoString ==
    /\ op \in {"new", "from", "fmt"}
    /\ op' = "into"
    /\ out' = into(err)
    /\ UNCHANGED <<src, err, arg, res>>

\* r.wrap_err(), on a fresh container or on the result of a previous wrap_err
WrapErr ==
    \E r \in Containers \cup (IF op = "wrap_err" THEN {res} ELSE {}) :
        /\ op' = "wrap_err"
        /\ arg' = r
        /\ res' = wrap_err(r)
        /\ src' = NoValue
        /\ err' = NoError
        /\ out' = <<>>

Next == Construct \/ Convert \/ Render \/ IntoString \/ WrapErr

Spec == Init /\ [][Next]_vars

\* ------------------------------------------------- the documented tables
\* the category label documented for each variant
CategoryLabel(v) ==
    CASE v = "DocError" -> <<"D", "o", "c", "u", "m", "e", "n", "t", " ", "e", "r", "r", "o", "r">>
      [] v = "DbError" -> <<"D", "a", "t", "a", "b", "a", "s", "e", " ", "e", "r", "r", "o", "r">>
      [] v = "StrError" -> <<"S", "t", "r", "i", "n", "g", " ", "e", "r", "r", "o", "r">>
      [] v = "DataError" -> <<"D", "a", "t", "a", " ", "c", "o", "d", "i", "n", "g", " ", "e", "r", "r", "o", "r">>
      [] v = "StorageError" -> <<"S", "t", "o", "r", "a", "g", "e", " ", "e", "r", "r", "o", "r">>
      [] v = "IoError" -> <<"I", "/", "O", " ", "E", "r", "r", "o", "r">>
      [] v = "SyncError" -> <<"S", "y", "n", "c", " ", "e", "r", "r", "o", "r">>

Separator == <<":", " ">>

\* the variant documented for each source type
VariantOf(t) ==
    CASE t = "DbError" -> "DbError"
      [] t = "CborError" -> "DataError"
      [] t = "IoError" -> "IoError"
      [] t = "Utf8Error" -> "StrError"
      [] t = "RonError" -> "StorageError"
      [] t = "PoisonError" -> "SyncError"
      [] t = "String" -> "DocError"
      [] t = "&str" -> "DocError"

\* the source types whose value is carried forward as the payload
OpaqueTypes == {"DbError", "CborError", "IoError", "Utf8Error"}

\* the source types whose display text is stored as the payload
StringifiedTypes == {"RonError", "PoisonError"}

IsPrefix(p, s) == Len(p) <= Len(s) /\ SubSeq(s, 1, Len(p)) = p

\* what fmt writes before the payload of a variant
PrefixOf(v) == fmt(Error(v, Val(PayloadType(v), <<>>)))

\* ---------------------------------------------------------------- claims
\* C1: the rendering of an Error is its variant's category label, then
\* ": ", then the payload's own rendering, for all seven variants and every
\* payload, the empty message included.
C1_DisplayFormat ==
    op = "fmt" =>
        /\ err.variant \in Variants
        /\ out = CategoryLabel(err.variant) \o Separator \o err.payload.text

C1_Witness ==
    /\ op = "fmt"
    /\ err.variant = "IoError"
    /\ err.payload.text = <<>>
    /\ out = <<"I", "/", "O", " ", "E", "r", "r", "o", "r", ":", " ">>

\* C2: a conversion always yields a well-formed Error of the variant fixed
\* for the source type; a storage-engine, codec, filesystem or text-decoding
\* failure is the payload itself, a configuration-format or poisoned-mutex
\* failure leaves its display text as the payload.
C2_ConversionTable ==
    (op = "from" /\ src.type \in ForeignTypes) =>
        /\ err \in Errors
        /\ err.variant = VariantOf(src.type)
        /\ src.type \in OpaqueTypes => err.payload = src
        /\ src.type \in StringifiedTypes => err.payload = Val("String", src.text)

C2_Witness ==
    /\ op = "from"
    /\ src.type = "PoisonError"
    /\ Len(src.text) > 0
    /\ err.variant = "SyncError"

\* C3: wrap_err returns Ok(v) for Ok(v) and Err(Error::from(e)) for Err(e),
\* the variant being the one fixed for the type of e; success stays success
\* and failure stays failure.
C3_WrapErr ==
    op = "wrap_err" =>
        /\ res.ok <=> arg.ok
        /\ res.etype = "Error"
        /\ arg.ok => (res.val = arg.val /\ res.fail = NoValue)
        /\ (~arg.ok /\ arg.etype \in SourceTypes) =>
              /\ res.fail = Error_from(arg.fail)
              /\ res.fail.variant = VariantOf(arg.etype)

C3_Witness ==
    /\ op = "wrap_err"
    /\ ~arg.ok
    /\ arg.etype = "CborError"
    /\ ~res.ok
    /\ res.fail.variant = "DataError"

\* C4: an owned string and a text slice of the same text convert to the same
\* Error: DocError with exactly that text as payload.
C4_StringForms ==
    (op = "from" /\ src.type \in {"String", "&str"}) =>
        /\ err = Error("DocError", Val("String", src.text))
        /\ err = Error_from(Val("String", src.text))
        /\ err = Error_from(Val("&str", src.text))
        /\ fmt(err) = CategoryLabel("DocError") \o Separator \o src.text

C4_Witness ==
    /\ op = "from"
    /\ src.type = "&str"
    /\ Len(src.text) > 0
    /\ err.variant = "DocError"

\* C5: consuming an Error into a string yields exactly its display
\* rendering, nothing added and nothing cut.
C5_IntoIsDisplay ==
    op = "into" =>
        /\ out = to_string(err)
        /\ Len(out) = Len(CategoryLabel(err.variant)) + 2 + Len(err.payload.text)

C5_Witness ==
    /\ op = "into"
    /\ err.variant = "StrError"
    /\ Len(err.payload.text) > 0

\* C6: a failure whose conversion carries the payload forward, converted
\* and then consumed into a string, gives its own display text prefixed by
\* the category label of the resulting variant.
C6_OpaqueRoundTrip ==
    (op = "into" /\ src.type \in OpaqueTypes \cup {"String", "&str"}) =>
        /\ err.variant = VariantOf(src.type)
        /\ out = CategoryLabel(err.variant) \o Separator \o src.text

C6_Witness ==
    /\ op = "into"
    /\ src.type = "DbError"
    /\ Len(src.text) > 0

\* C7 as stated: a configuration-format or poisoned-mutex failure, converted
\* and then consumed into a string, gives the stringified message itself.
C7_Original ==
    (op = "into" /\ src.type \in StringifiedTypes) => out = err.payload.text

\* C7 as amended: a configuration-format or poisoned-mutex failure,
\* converted and then consumed into a string, gives the category label
\* ("Storage error" or "Sync error"), then ": ", then the stringified
\* message, which is the display text of the original failure.
C7_StringifiedRoundTrip ==
    (op = "into" /\ src.type \in StringifiedTypes) =>
        /\ err.payload = Val("String", src.text)
        /\ out = CategoryLabel(VariantOf(src.type)) \o Separator \o err.payload.text

C7_Witness ==
    /\ op = "into"
    /\ src.type = "RonError"
    /\ Len(src.text) > 0
    /\ err.variant = "StorageError"

\* C8: rendering any Error, however it was made and whatever its payload,
\* gives a string that is not empty.
C8_NeverEmpty ==
    op \in {"fmt", "into"} => Len(out) > 0

C8_Witness ==
    /\ op = "fmt"
    /\ err.variant = "DocError"
    /\ err.payload.text = <<>>

\* C9: the prefixes written for the seven variants are pairwise distinct and
\* none is a prefix of another, so no Error of another variant renders to the
\* same string and the rendered string alone determines the variant.
C9_Unambiguous ==
    op = "fmt" =>
        /\ \A v, w \in Variants : v # w => ~IsPrefix(PrefixOf(v), PrefixOf(w))
        /\ \A e \in Errors : e.variant # err.variant => fmt(e) # out
        /\ {v \in Variants : IsPrefix(PrefixOf(v), out)} = {err.variant}

C9_Witness ==
    /\ op = "fmt"
    /\ err.variant = "SyncError"
    /\ IsPrefix(PrefixOf("SyncError"), out)

\* C10: wrap_err applied to a container whose failure type is already Error
\* returns it unchanged, so applying wrap_err to any result of wrap_err
\* changes nothing.
C10_WrapErrIdempotent ==
    op = "wrap_err" =>
        /\ arg.etype = "Error" => res = arg
        /\ wrap_err(res) = res

C10_Witness ==
    /\ op = "wrap_err"
    /\ ~arg.ok
    /\ arg.etype = "Error"
    /\ arg.fail.variant = "SyncError"
    /\ res = arg

====
